---- MODULE Spec2Model ----
(***************************************************************************)
(* Model of capgains (src/src/main.rs): Account::new,                      *)
(* Account::make_sell_records and Account::minimum_cap_gains.              *)
(*                                                                         *)
(* Number representation.  The program computes in f64.  The inputs of     *)
(* the model are dyadic rationals small enough that every f64 operation    *)
(* of the program is exact or rounds without crossing an integer or        *)
(* another ratio, so the model computes the same values with integers:     *)
(*   - a share count is held in HALF shares (num_shares = 5 is 2.5);       *)
(*   - a price is a whole number of currency units;                        *)
(*   - amount and cap_gains are held in HALF currency units                *)
(*     (price * half shares);                                              *)
(*   - tax_rate is held in HALVES (tax_rate = 1 is 0.5);                   *)
(*   - a net-of-tax amount (amount - cap_gains * tax_rate) is held in      *)
(*     QUARTER currency units: 2 * amount - tax_rate * cap_gains;          *)
(*   - cap_gains_ratio = cap_gains / amount is held as the fraction        *)
(*     [num, den]; den = 0 gives the f64 values NaN (0/0), -inf and +inf.  *)
(* Vec indices are 1-based here and 0-based in the program.                *)
(*                                                                         *)
(* A Record keeps the fields the selection reads: fund, num_shares and     *)
(* share_price (the cost basis).  date is only copied into the SellRecord  *)
(* and read by print_sell_summary; transaction_type and amount are never   *)
(* read.  The csv loaders, the summary and main are not modelled.          *)
(* sell_target ranges over positive values and tax_rate over [0, 1).       *)
(***************************************************************************)
EXTENDS Integers, Sequences, FiniteSets, TLC

\* ------------------------------------------------------------- bounds
MaxLots == 2
MaxTarget == 7

Funds == {"F1", "F2"}
\* half shares: 0, 2.5 and 3 shares
ShareVals == {0, 5, 6}
BasisVals == {1, 3}
PriceVals == {0, 1, 3}
\* halves: 0 and 0.5
TaxRates == {0, 1}
Targets == 1..MaxTarget

VARIABLES
    records,      \* Account.records: the lots, in input order
    funds,        \* Account.funds: the distinct funds of the lots
    fund_prices,  \* the price table: a function from the priced funds
    sell_target,  \* whole currency units
    tax_rate,     \* halves
    pc,           \* position in minimum_cap_gains
    sell_records, \* Vec<SellRecord>, then Vec<Option<SellRecord>>
    indices,      \* the ranking: lot indices in sorted order
    k,            \* number of entries of indices the for loop has consumed
    amount,       \* running amount, half units
    cap_gains,    \* running cap_gains, half units
    n,            \* the local n of the crossing branch (whole shares), 0 before
    result,       \* the local result
    outcome,      \* "Running", "Ok", "MissingPrice", "InsufficientFunds", or a panic:
                  \* "PanicNoPrice" (unwrap, line 118), "PanicNaN" (unwrap, line 153),
                  \* "PanicTaken" (unwrap, line 167)
    err_fund,     \* the fund named by the missing-price error
    returned      \* the selection handed to the caller

vars == <<records, funds, fund_prices, sell_target, tax_rate, pc, sell_records,
          indices, k, amount, cap_gains, n, result, outcome, err_fund, returned>>

\* ------------------------------------------------------------- inputs
Record == [fund : Funds, num_shares : ShareVals, share_price : BasisVals]

SeqsUpTo(S, m) == UNION {[1..l -> S] : l \in 0..m}

PriceTables == UNION {[D -> PriceVals] : D \in SUBSET Funds}

NoFund == "none"

\* Account::new: the funds are the distinct funds of the records.
AccountFunds(recs) == {recs[i].fund : i \in DOMAIN recs}

\* ------------------------------------------------------------- f64 helpers
\* f64::trunc of num/den: rounds toward zero.
TruncDiv(num, den) ==
    IF den = 0 THEN 0
    ELSE LET an == IF num < 0 THEN -num ELSE num
             ad == IF den < 0 THEN -den ELSE den
             q  == an \div ad
         IN IF (num < 0) = (den < 0) THEN q ELSE -q

\* The f64 value of the fraction r: "nan", "neginf", "posinf" or "fin".
RatioKind(r) ==
    IF r.den # 0 THEN "fin"
    ELSE IF r.num = 0 THEN "nan"
    ELSE IF r.num < 0 THEN "neginf" ELSE "posinf"

\* The order of the f64 values on the extended line (den >= 0 throughout).
RatioLt(a, b) ==
    LET ka == RatioKind(a)
        kb == RatioKind(b)
    IN CASE ka = "neginf" -> kb # "neginf"
         [] ka = "posinf" -> FALSE
         [] kb = "neginf" -> FALSE
         [] kb = "posinf" -> TRUE
         [] OTHER -> a.num * b.den < b.num * a.den

\* f64::partial_cmp: None when either side is NaN.
PartialCmp(a, b) ==
    IF RatioKind(a) = "nan" \/ RatioKind(b) = "nan" THEN "None"
    ELSE IF RatioLt(a, b) THEN "Less"
    ELSE IF RatioLt(b, a) THEN "Greater"
    ELSE "Equal"

\* amount - cap_gains * tax_rate, in quarter units.
Net(a, c, r) == 2 * a - r * c

\* ------------------------------------------------------------- make_sell_records
\* A slip in the containment test: the priced funds the account does not hold.
MissingFundsSwapped(fs, prices) == {f \in DOMAIN prices : f \notin fs}

\* The funds of the account with no entry in the price table.
MissingFunds(fs, prices) == {f \in fs : f \notin DOMAIN prices}

\* One SellRecord from one Record and the price of its fund.
MakeSellRecord(rec, price) ==
    [fund                  |-> rec.fund,
     num_shares            |-> rec.num_shares,
     share_price_purchased |-> rec.share_price,
     share_price           |-> price,
     amount                |-> price * rec.num_shares,
     cap_gains             |-> (price - rec.share_price) * rec.num_shares,
     cap_gains_ratio       |-> [num |-> (price - rec.share_price) * rec.num_shares,
                                den |-> price * rec.num_shares]]

Init ==
    /\ records \in SeqsUpTo(Record, MaxLots)
    /\ funds = AccountFunds(records)
    /\ fund_prices \in PriceTables
    /\ sell_target \in Targets
    /\ tax_rate \in TaxRates
    /\ pc = "check_prices"
    /\ sell_records = <<>>
    /\ indices = <<>>
    /\ k = 0
    /\ amount = 0
    /\ cap_gains = 0
    /\ n = 0
    /\ result = <<>>
    /\ outcome = "Running"
    /\ err_fund = NoFund
    /\ returned = <<>>

\* make_sell_records, the loop over self.funds: the first fund met without a
\* price is reported; a HashSet iterates in no specified order.
CheckPrices ==
    /\ pc = "check_prices"
    /\ IF MissingFunds(funds, fund_prices) # {}
       THEN /\ err_fund' \in MissingFunds(funds, fund_prices)
            /\ outcome' = "MissingPrice"
            /\ pc' = "done"
       ELSE /\ pc' = "make_records"
            /\ UNCHANGED <<err_fund, outcome>>
    /\ UNCHANGED <<records, funds, fund_prices, sell_target, tax_rate,
                   sell_records, indices, k, amount, cap_gains, n, result, returned>>

\* make_sell_records, the loop over self.records.  The unwrap of the price
\* lookup panics on a fund without a price.
MakeSellRecords ==
    /\ pc = "make_records"
    /\ IF \E i \in DOMAIN records : records[i].fund \notin DOMAIN fund_prices
       THEN /\ outcome' = "PanicNoPrice"
            /\ pc' = "done"
            /\ UNCHANGED sell_records
       ELSE /\ sell_records' = [i \in DOMAIN records |->
                                   MakeSellRecord(records[i], fund_prices[records[i].fund])]
            /\ pc' = "sort"
            /\ UNCHANGED outcome
    /\ UNCHANGED <<records, funds, fund_prices, sell_target, tax_rate,
                   indices, k, amount, cap_gains, n, result, err_fund, returned>>

\* ------------------------------------------------------------- ranking
\* A slip in the comparator: b.0.partial_cmp(&a.0), a descending sort.
InOrderDescending(a, b) == PartialCmp(a, b) \in {"Greater", "Equal"}

\* The comparator's verdict that a may stand before b in the sorted order.
InOrder(a, b) == PartialCmp(a, b) \in {"Less", "Equal"}

IndexOrders(m) == {p \in [1..m -> 1..m] : \A i, j \in 1..m : p[i] = p[j] => i = j}

\* The results sort_unstable_by may give: every order of the indices that is
\* ascending by cap_gains_ratio; the order of equal elements is not specified.
SortUnstable(srecs) ==
    {p \in IndexOrders(Len(srecs)) :
        \A i, j \in 1..Len(srecs) :
            i < j => InOrder(srecs[p[i]].cap_gains_ratio, srecs[p[j]].cap_gains_ratio)}

\* The comparator's unwrap panics when partial_cmp meets a NaN; a sort of two
\* or more elements compares every element at least once.
SortPanics(srecs) ==
    /\ Len(srecs) >= 2
    /\ \E i \in DOMAIN srecs : RatioKind(srecs[i].cap_gains_ratio) = "nan"

None == [some |-> FALSE]
Some(s) == [some |-> TRUE, val |-> s]

\* minimum_cap_gains: the ranking, then the records wrapped in Some.
SortIndices ==
    /\ pc = "sort"
    /\ IF SortPanics(sell_records)
       THEN /\ outcome' = "PanicNaN"
            /\ pc' = "done"
            /\ UNCHANGED <<indices, sell_records>>
       ELSE /\ indices' \in SortUnstable(sell_records)
            /\ sell_records' = [i \in DOMAIN sell_records |-> Some(sell_records[i])]
            /\ pc' = IF Len(sell_records) = 0 THEN "final" ELSE "walk"
            /\ UNCHANGED outcome
    /\ UNCHANGED <<records, funds, fund_prices, sell_target, tax_rate,
                   k, amount, cap_gains, n, result, err_fund, returned>>

\* ------------------------------------------------------------- the walk
\* A slip in the removal: Vec::remove(i), which shifts the later elements down.
RemoveShift(v, i) == [j \in 1..(Len(v) - 1) |-> IF j < i THEN v[j] ELSE v[j + 1]]

\* Vec::swap_remove(i): the last element takes the place of element i.
SwapRemove(v, i) == [j \in 1..(Len(v) - 1) |-> IF j = i THEN v[Len(v)] ELSE v[j]]

\* The test of the walk: amount - cap_gains * tax_rate > sell_target.
Exceeds(a, c, r, target) == Net(a, c, r) > 4 * target

\* A slip in the share count: the "+ 1.0" left out.
NSharesNoRoundUp(srec, a, c, r, target) ==
    TruncDiv((4 * target - Net(a, c, r)) * srec.num_shares,
             2 * Net(srec.amount, srec.cap_gains, r))

\* The local n: ((sell_target - (a - c * tax_rate)) / x).trunc() + 1.0 with
\* x = (srec.amount - srec.cap_gains * tax_rate) / srec.num_shares, and a, c the
\* running values before srec.  In quarter units the quotient is
\* (4 target - Net(a, c)) * num_shares / (2 * Net(srec)).
NShares(srec, a, c, r, target) ==
    TruncDiv((4 * target - Net(a, c, r)) * srec.num_shares,
             2 * Net(srec.amount, srec.cap_gains, r)) + 1

\* A slip in the split test: n <= srec.num_shares.trunc().
SplitLotInclusive(srec, m) == m <= TruncDiv(srec.num_shares, 2)

\* The split test: n < srec.num_shares.trunc().
SplitLot(srec, m) == m < TruncDiv(srec.num_shares, 2)

\* A slip in the partial record: cap_gains left as the whole lot's.
PartialRecordStaleGain(srec, m) ==
    [srec EXCEPT !.num_shares = 2 * m,
                 !.amount = srec.share_price * (2 * m)]

\* The partial record: m whole shares of srec.
PartialRecord(srec, m) ==
    [srec EXCEPT !.num_shares = 2 * m,
                 !.amount = srec.share_price * (2 * m),
                 !.cap_gains = (srec.share_price - srec.share_price_purchased) * (2 * m)]

\* One iteration of the for loop over indices.
TakeLot ==
    /\ pc = "walk"
    /\ LET i      == indices[k + 1]
           pushed == Append(sell_records, None)
           slot   == pushed[i]
       IN /\ sell_records' = SwapRemove(pushed, i)
          /\ k' = k + 1
          /\ IF ~slot.some
             THEN /\ outcome' = "PanicTaken"
                  /\ pc' = "done"
                  /\ UNCHANGED <<amount, cap_gains, n, result>>
             ELSE LET srec == slot.val
                      a    == amount + srec.amount
                      c    == cap_gains + srec.cap_gains
                      m    == NShares(srec, a - srec.amount, c - srec.cap_gains,
                                      tax_rate, sell_target)
                  IN /\ amount' = a
                     /\ cap_gains' = c
                     /\ UNCHANGED outcome
                     /\ IF Exceeds(a, c, tax_rate, sell_target)
                        THEN /\ n' = m
                             /\ result' = Append(result,
                                    IF SplitLot(srec, m) THEN PartialRecord(srec, m)
                                                         ELSE srec)
                             /\ pc' = "final"
                        ELSE /\ result' = Append(result, srec)
                             /\ pc' = IF k + 1 = Len(indices) THEN "final" ELSE "walk"
                             /\ UNCHANGED n
    /\ UNCHANGED <<records, funds, fund_prices, sell_target, tax_rate,
                   indices, err_fund, returned>>

\* The test after the loop: amount < sell_target, on the gross amount.
Insufficient(a, target) == a < 2 * target

FinalCheck ==
    /\ pc = "final"
    /\ IF Insufficient(amount, sell_target)
       THEN /\ outcome' = "InsufficientFunds"
            /\ UNCHANGED returned
       ELSE /\ outcome' = "Ok"
            /\ returned' = result
    /\ pc' = "done"
    /\ UNCHANGED <<records, funds, fund_prices, sell_target, tax_rate, sell_records,
                   indices, k, amount, cap_gains, n, result, err_fund>>

Next ==
    \/ CheckPrices
    \/ MakeSellRecords
    \/ SortIndices
    \/ TakeLot
    \/ FinalCheck

Spec == Init /\ [][Next]_vars

\* ------------------------------------------------------------- the lots, from the inputs
\* What the claims are stated in: the figures of lot i computed from records
\* and fund_prices alone.
AllPriced == \A i \in DOMAIN records : records[i].fund \in DOMAIN fund_prices

LotPrice(i) == fund_prices[records[i].fund]
LotAmount(i) == LotPrice(i) * records[i].num_shares
LotGain(i) == (LotPrice(i) - records[i].share_price) * records[i].num_shares
LotNet(i) == 2 * LotAmount(i) - tax_rate * LotGain(i)
LotRatio(i) == [num |-> LotGain(i), den |-> LotAmount(i)]
\* net of tax proceeds of one half share of lot i, quarter units
LotNetPerHalfShare(i) == 2 * LotPrice(i) - tax_rate * (LotPrice(i) - records[i].share_price)

RECURSIVE SumTo(_, _)
SumTo(f, j) == IF j = 0 THEN 0 ELSE f[j] + SumTo(f, j - 1)

TotalNet == SumTo([i \in DOMAIN records |-> LotNet(i)], Len(records))
SelectionNet(sel) ==
    SumTo([j \in DOMAIN sel |-> 2 * sel[j].amount - tax_rate * sel[j].cap_gains], Len(sel))
\* net of the first j ranked lots, taken whole
PrefixNet(j) == SumTo([x \in DOMAIN indices |-> LotNet(indices[x])], j)

\* The data model's lots: positive share counts and positive prices.
PositiveLots ==
    \A i \in DOMAIN records : records[i].num_shares > 0 /\ LotPrice(i) > 0

Crossed == k >= 1 /\ 2 * amount - tax_rate * cap_gains > 4 * sell_target

\* ------------------------------------------------------------- claims
\* C1: whenever every holding is priced and the net-of-tax value of all lots
\* (sum of sale_amount - capital_gain * r) is at least the target, the call
\* returns Ok with a selection whose net-of-tax total is at least the target
\* and no entry has more shares than its lot; lots with a loss included.
C1_SufficientFundsSelected ==
    (pc = "done" /\ AllPriced /\ PositiveLots /\ TotalNet >= 4 * sell_target)
        => /\ outcome = "Ok"
           /\ SelectionNet(returned) >= 4 * sell_target
           /\ \A j \in DOMAIN returned :
                  returned[j].num_shares <= records[indices[j]].num_shares

\* C2: whenever every holding is priced and the net-of-tax value of all lots is
\* less than the target, the call fails with the insufficient-funds error and
\* returns no selection, also when the gross amount reaches the target.
C2_InsufficientFundsReported ==
    (pc = "done" /\ AllPriced /\ PositiveLots /\ TotalNet < 4 * sell_target)
        => (outcome = "InsufficientFunds" /\ returned = <<>>)

\* C3: if a holding of the account has no price, the call fails with the
\* missing-price error naming such a holding, before any sell record is made,
\* ranked or selected, whatever the priced lots are worth; nothing is returned.
C3_MissingPriceReported ==
    (~AllPriced /\ pc # "check_prices")
        => /\ pc = "done"
           /\ outcome = "MissingPrice"
           /\ err_fund \in funds
           /\ err_fund \notin DOMAIN fund_prices
           /\ sell_records = <<>>
           /\ indices = <<>>
           /\ result = <<>>
           /\ returned = <<>>
           /\ amount = 0 /\ cap_gains = 0

\* C3 witness: the error is reported although one priced lot alone is worth
\* more than the target.
C3_Witness ==
    /\ outcome = "MissingPrice"
    /\ \E i \in DOMAIN records :
          /\ records[i].fund \in DOMAIN fund_prices
          /\ LotNet(i) > 4 * sell_target

\* C4: every entry of a returned selection has 0 < shares <= the shares of the
\* lot it came from, sale_amount = price * shares and capital_gain =
\* (price - cost basis) * shares, so its figures are shares / S times the
\* whole lot's figures.
C4_EntryFigures ==
    outcome = "Ok" =>
        \A j \in DOMAIN returned :
            LET e == returned[j]
                i == indices[j]
            IN /\ e.fund = records[i].fund
               /\ e.share_price_purchased = records[i].share_price
               /\ 0 < e.num_shares
               /\ e.num_shares <= records[i].num_shares
               /\ e.amount = LotPrice(i) * e.num_shares
               /\ e.cap_gains = (LotPrice(i) - records[i].share_price) * e.num_shares
               /\ e.amount * records[i].num_shares = e.num_shares * LotAmount(i)
               /\ e.cap_gains * records[i].num_shares = e.num_shares * LotGain(i)

\* C4 witness: a returned selection holding a partial entry with a gain, cut
\* from a lot with a fractional share count.
C4_Witness ==
    /\ outcome = "Ok"
    /\ \E j \in DOMAIN returned :
          /\ returned[j].num_shares < records[indices[j]].num_shares
          /\ records[indices[j]].num_shares = 5
          /\ returned[j].cap_gains > 0

\* C5: the entries of a returned selection are in non-decreasing order of the
\* gain ratio of their lots, and no lot left out has a strictly smaller gain
\* ratio than a lot in the selection.
C5_AscendingSelection ==
    outcome = "Ok" =>
        /\ \A j1, j2 \in DOMAIN returned :
               j1 < j2 => ~RatioLt(LotRatio(indices[j2]), LotRatio(indices[j1]))
        /\ \A j \in DOMAIN returned :
               returned[j].cap_gains_ratio = LotRatio(indices[j])
        /\ \A j \in DOMAIN returned :
               \A i \in DOMAIN records :
                   (\A x \in DOMAIN returned : indices[x] # i)
                       => ~RatioLt(LotRatio(i), LotRatio(indices[j]))

\* C5 witness: a returned selection of one lot, the second of the input, whose
\* gain ratio is strictly smaller than that of the first, which is left out.
C5_Witness ==
    /\ outcome = "Ok"
    /\ Len(records) = 2
    /\ Len(returned) = 1
    /\ indices = <<2, 1>>
    /\ RatioLt(LotRatio(2), LotRatio(1))

\* C6: the ranking is stable: of two different lots with equal gain ratio the
\* one earlier in the input is ranked, and so accumulated and emitted, first
\* (stated for the data model's lots, with positive shares and prices).
C6_StableRanking ==
    (AllPriced /\ PositiveLots) =>
        \A j1, j2 \in DOMAIN indices :
            (/\ j1 < j2
             /\ records[indices[j1]] # records[indices[j2]]
             /\ PartialCmp(LotRatio(indices[j1]), LotRatio(indices[j2])) = "Equal")
                => indices[j1] < indices[j2]

\* C7 (as stated): at the crossing lot, n is the minimum share count whose
\* inclusion reaches or exceeds the target net of tax:
\* (a - c*r) + n*x >= target and (a - c*r) + (n-1)*x < target
\* (stated for the data model's lots, with positive shares and prices).
C7_NMinimalReaching ==
    (Crossed /\ PositiveLots) =>
        LET i   == indices[k]
            pre == (2 * amount - tax_rate * cap_gains) - LotNet(i)
            xh  == LotNetPerHalfShare(i)
        IN /\ pre + 2 * n * xh >= 4 * sell_target
           /\ pre + 2 * (n - 1) * xh < 4 * sell_target

\* C7 (amended): at the crossing lot, n is at least 1 and is the minimum share
\* count whose inclusion strictly exceeds the target net of tax:
\* (a - c*r) + n*x > target and (a - c*r) + (n-1)*x <= target.
C7_NMinimalExceeding ==
    Crossed =>
        LET i   == indices[k]
            pre == (2 * amount - tax_rate * cap_gains) - LotNet(i)
            xh  == LotNetPerHalfShare(i)
        IN /\ n >= 1
           /\ pre + 2 * n * xh > 4 * sell_target
           /\ pre + 2 * (n - 1) * xh <= 4 * sell_target

\* C7 witness: a crossing at the second ranked lot where n - 1 shares bring the
\* net amount to the target exactly, with tax applied.
C7_Witness ==
    /\ Crossed
    /\ k = 2
    /\ tax_rate = 1
    /\ n >= 2
    /\ ((2 * amount - tax_rate * cap_gains) - LotNet(indices[k]))
           + 2 * (n - 1) * LotNetPerHalfShare(indices[k]) = 4 * sell_target

\* The walk is over and ended neither in a panic nor in the missing-price error.
WalkOver == pc \in {"final", "done"} /\ outcome \in {"Running", "Ok", "InsufficientFunds"}

\* The ranked positions after whose lot the net amount of the whole lots so
\* far strictly exceeds the target.
CrossingPositions == {j \in DOMAIN indices : PrefixNet(j) > 4 * sell_target}

\* C8: the walk stops at the first ranked lot after which the net amount
\* strictly exceeds the target: no later lot is in the result, every entry
\* before the last is a whole lot, and the last entry is a partial one of n
\* shares exactly when there is a crossing and n is less than the whole-share
\* count of the crossing lot, and the whole lot otherwise.
C8_StopAtFirstCrossing ==
    WalkOver =>
        /\ Len(result) = k
        /\ IF CrossingPositions = {}
           THEN k = Len(indices)
           ELSE /\ k \in CrossingPositions
                /\ \A j \in CrossingPositions : k <= j
        /\ \A j \in DOMAIN result :
               (j < k \/ CrossingPositions = {})
                   => /\ result[j].num_shares = records[indices[j]].num_shares
                      /\ result[j].amount = LotAmount(indices[j])
                      /\ result[j].cap_gains = LotGain(indices[j])
        /\ (CrossingPositions # {}) =>
               LET whole == records[indices[k]].num_shares
               IN IF n < whole \div 2
                  THEN /\ result[k].num_shares = 2 * n
                       /\ result[k].num_shares < whole
                  ELSE /\ result[k].num_shares = whole
                       /\ result[k].amount = LotAmount(indices[k])
                       /\ result[k].cap_gains = LotGain(indices[k])
        /\ outcome = "Ok" => returned = result

\* C8 witness: a returned selection of two entries, the first a whole lot and
\* the last a partial one.
C8_Witness ==
    /\ outcome = "Ok"
    /\ Len(returned) = 2
    /\ returned[1].num_shares = records[indices[1]].num_shares
    /\ returned[2].num_shares < records[indices[2]].num_shares

\* C9: with a lot whose sale_amount is 0 in the account, the call still ends
\* with a selection or one of its two errors: it does not panic in the
\* comparison.
C9_ZeroAmountLotRanked ==
    (AllPriced /\ \E i \in DOMAIN records : LotAmount(i) = 0)
        => outcome \in {"Running", "Ok", "InsufficientFunds"}

\* The lots taken so far.
Taken == {indices[j] : j \in 1..k}

\* C10: during and after the walk the working list keeps its length, every lot
\* not yet taken is at its original index, exactly the taken indices hold
\* None, no index is taken twice, the unwrap never meets None, and no lot is
\* in the result twice.
C10_WorkingListAligned ==
    (pc \in {"walk", "final", "done"}
         /\ outcome \notin {"MissingPrice", "PanicNoPrice", "PanicNaN"})
        => /\ outcome # "PanicTaken"
           /\ Len(sell_records) = Len(records)
           /\ \A j1, j2 \in DOMAIN indices : indices[j1] = indices[j2] => j1 = j2
           /\ Cardinality(Taken) = k
           /\ Len(result) = k
           /\ \A i \in DOMAIN sell_records :
                  IF i \in Taken
                  THEN ~sell_records[i].some
                  ELSE /\ sell_records[i].some
                       /\ sell_records[i].val =
                              MakeSellRecord(records[i], fund_prices[records[i].fund])
           /\ \A j \in DOMAIN result :
                  /\ result[j].fund = records[indices[j]].fund
                  /\ result[j].share_price_purchased = records[indices[j]].share_price

\* C10 witness: mid-walk, the first lot of two different lots is taken: its
\* slot holds None and the second lot is still in the second slot.
C10_Witness ==
    /\ pc = "walk"
    /\ k = 1
    /\ indices = <<1, 2>>
    /\ records[1] # records[2]
    /\ ~sell_records[1].some
    /\ sell_records[2].some
====
